---- MODULE Spec2Model ----
(***************************************************************************)
(* Model of the Obsidian file publisher plugin (src/main.ts).              *)
(*                                                                         *)
(* A path is a sequence of one-character strings, so that the substring    *)
(* test, the split on "/" and the join of moveFile are computed as the     *)
(* code computes them.  A settings string (apiKey, apiSecret) is a         *)
(* sequence of UTF-16 code units, so that Buffer.from(...).toString        *)
(* ("base64") is computed byte by byte.                                    *)
(***************************************************************************)
EXTENDS Integers, Sequences, FiniteSets, TLC

VARIABLES
    settings,   \* MyPlugin.settings (main.ts:35)
    data,       \* the plugin's persisted data file (loadData / saveData)
    saving,     \* saveData calls in flight, oldest first
    edits,      \* number of settings edits made so far
    loaded,     \* TRUE once onload's loadSettings has run
    filePath,   \* TFile.path of every file of the vault
    folders,    \* the folders of the vault
    run         \* one record per click-able menu item / publish invocation

vars == <<settings, data, saving, edits, loaded, filePath, folders, run>>

-----------------------------------------------------------------------------
(* Bounds *)

\* number of publish invocations (menu items) that may be in flight
NInv == 2
\* number of settings edits (onChange calls) in one behaviour
MaxEdits == 2
\* number of saveData calls that may be in flight at once
MaxSaving == 2
\* longest apiKey / apiSecret, in UTF-16 code units
MaxLen == 2

Invs == 1..NInv

-----------------------------------------------------------------------------
(* Strings *)

\* String.prototype.contains (Obsidian's alias of includes): substring test
Contains(s, t) ==
    \E i \in 0..(Len(s) - Len(t)) : SubSeq(s, i + 1, i + Len(t)) = t

\* index of the first occurrence of the character c in s, 0 when absent
IndexOf(s, c) ==
    IF \E i \in 1..Len(s) : s[i] = c
    THEN CHOOSE i \in 1..Len(s) : s[i] = c /\ \A j \in 1..(i - 1) : s[j] # c
    ELSE 0

\* fp-ts Str.split(sep), i.e. s.split(sep), for a one-character separator
RECURSIVE Split(_, _)
Split(s, sep) ==
    LET i == IndexOf(s, sep)
    IN  IF i = 0
        THEN <<s>>
        ELSE <<SubSeq(s, 1, i - 1)>> \o Split(SubSeq(s, i + 1, Len(s)), sep)

\* Array.prototype.join(sep)
RECURSIVE Join(_, _)
Join(parts, sep) ==
    IF Len(parts) = 0 THEN <<>>
    ELSE IF Len(parts) = 1 THEN parts[1]
    ELSE parts[1] \o <<sep>> \o Join(Tail(parts), sep)

None == [tag |-> "none"]
Some(v) == [tag |-> "some", value |-> v]

\* fp-ts RA.insertAt(i, a)(as): none when i is out of range
InsertAt(i, a, as) ==
    IF i < 0 \/ i > Len(as)
    THEN None
    ELSE Some(SubSeq(as, 1, i) \o <<a>> \o SubSeq(as, i + 1, Len(as)))

\* parts.slice(0, -1)
SliceInit(parts) == SubSeq(parts, 1, Len(parts) - 1)

PUBLISHED_DIR == <<"p", "u", "b", "l", "i", "s", "h", "e", "d">>

\* TAbstractFile.name: the last segment of the path
BaseName(p) == LET parts == Split(p, "/") IN parts[Len(parts)]

\* The parent directory's segments
ParentParts(p) == SliceInit(Split(p, "/"))

\* Does any '/'-separated segment of p equal "published"?
HasPublishedSegment(p) ==
    LET parts == Split(p, "/")
    IN  \E k \in 1..Len(parts) : parts[k] = PUBLISHED_DIR

-----------------------------------------------------------------------------
(* moveFile's pure part (main.ts:114-127) *)

\* mutant: the guard never holds, every file is moved
AlreadyPublishedNever(p) == FALSE

\* the guard of moveFile: TRUE means "return the file, do nothing"
AlreadyPublished(p) == Contains(p, PUBLISHED_DIR)

\* parts with "published" inserted before the base name, as an Option
TargetParts(p) ==
    LET parts == Split(p, "/")
    IN  InsertAt(Len(parts) - 1, PUBLISHED_DIR, parts)

\* "base": the folder moveFile creates
TargetBase(parts) == Join(SliceInit(parts), "/")

\* "path": the path moveFile renames the file to
TargetPath(parts) == Join(parts, "/")

-----------------------------------------------------------------------------
(* The token (main.ts:50): Buffer.from(`${apiKey}:${apiSecret}`)           *)
(*                              .toString("base64")                        *)

\* UTF-16 code units used in the settings strings:
\* 'k', ':', e-acute (2 bytes in UTF-8), the euro sign (3 bytes),
\* and the surrogate pair D83D DE00 (4 bytes when paired)
CodeUnits == {107, 58, 233, 8364, 55357, 56832}

IsHighSurrogate(c) == c >= 55296 /\ c <= 56319
IsLowSurrogate(c) == c >= 56320 /\ c <= 57343

\* A string without unpaired surrogates
RECURSIVE WellFormed(_)
WellFormed(u) ==
    IF Len(u) = 0 THEN TRUE
    ELSE IF IsHighSurrogate(u[1])
         THEN Len(u) >= 2 /\ IsLowSurrogate(u[2]) /\ WellFormed(Tail(Tail(u)))
    ELSE IF IsLowSurrogate(u[1]) THEN FALSE
    ELSE WellFormed(Tail(u))

\* Buffer.from(string): the UTF-8 bytes of a string of UTF-16 code units;
\* an unpaired surrogate is encoded as U+FFFD (EF BF BD)
RECURSIVE Utf8Encode(_)
Utf8Encode(u) ==
    IF Len(u) = 0 THEN <<>>
    ELSE LET c == u[1] IN
         IF c < 128 THEN <<c>> \o Utf8Encode(Tail(u))
         ELSE IF c < 2048
              THEN <<192 + (c \div 64), 128 + (c % 64)>> \o Utf8Encode(Tail(u))
         ELSE IF IsHighSurrogate(c) /\ Len(u) >= 2 /\ IsLowSurrogate(u[2])
              THEN LET cp == 65536 + (c - 55296) * 1024 + (u[2] - 56320)
                   IN  <<240 + (cp \div 262144),
                         128 + ((cp \div 4096) % 64),
                         128 + ((cp \div 64) % 64),
                         128 + (cp % 64)>> \o Utf8Encode(Tail(Tail(u)))
         ELSE IF IsHighSurrogate(c) \/ IsLowSurrogate(c)
              THEN <<239, 191, 189>> \o Utf8Encode(Tail(u))
         ELSE <<224 + (c \div 4096),
                128 + ((c \div 64) % 64),
                128 + (c % 64)>> \o Utf8Encode(Tail(u))

B64Alphabet ==
    <<"A", "B", "C", "D", "E", "F", "G", "H", "I", "J", "K", "L", "M",
      "N", "O", "P", "Q", "R", "S", "T", "U", "V", "W", "X", "Y", "Z",
      "a", "b", "c", "d", "e", "f", "g", "h", "i", "j", "k", "l", "m",
      "n", "o", "p", "q", "r", "s", "t", "u", "v", "w", "x", "y", "z",
      "0", "1", "2", "3", "4", "5", "6", "7", "8", "9", "+", "/">>

B64Char(n) == B64Alphabet[n + 1]

\* buf.toString("base64"): three bytes to four characters, "=" padded
RECURSIVE ToBase64(_)
ToBase64(b) ==
    IF Len(b) = 0 THEN <<>>
    ELSE IF Len(b) = 1
         THEN <<B64Char(b[1] \div 4), B64Char((b[1] % 4) * 16), "=", "=">>
    ELSE IF Len(b) = 2
         THEN <<B64Char(b[1] \div 4),
                B64Char((b[1] % 4) * 16 + (b[2] \div 16)),
                B64Char((b[2] % 16) * 4), "=">>
    ELSE <<B64Char(b[1] \div 4),
           B64Char((b[1] % 4) * 16 + (b[2] \div 16)),
           B64Char((b[2] % 16) * 4 + (b[3] \div 64)),
           B64Char(b[3] % 64)>> \o ToBase64(SubSeq(b, 4, Len(b)))

\* `${apiKey}:${apiSecret}`
Credentials(apiKey, apiSecret) == apiKey \o <<58>> \o apiSecret

\* mutant: the colon is left out
DeriveTokenNoColon(apiKey, apiSecret) ==
    ToBase64(Utf8Encode(apiKey \o apiSecret))

\* the token of the file-menu handler
DeriveToken(apiKey, apiSecret) ==
    ToBase64(Utf8Encode(Credentials(apiKey, apiSecret)))

\* the Authorization header of publishFile: "Basic " + token
AuthHeader(token) == <<"B", "a", "s", "i", "c", " ">> \o token

(* The inverse conversions, used to state what the token decodes to *)

B64Index(ch) == (CHOOSE n \in 1..64 : B64Alphabet[n] = ch) - 1

\* base64 text to bytes (standard alphabet, "=" padding)
RECURSIVE FromBase64(_)
FromBase64(t) ==
    IF Len(t) < 4 THEN <<>>
    ELSE LET a == B64Index(t[1])
             b == B64Index(t[2])
         IN  IF t[3] = "=" THEN <<a * 4 + (b \div 16)>>
             ELSE LET c == B64Index(t[3]) IN
                  IF t[4] = "="
                  THEN <<a * 4 + (b \div 16), (b % 16) * 16 + (c \div 4)>>
                  ELSE <<a * 4 + (b \div 16),
                         (b % 16) * 16 + (c \div 4),
                         (c % 4) * 64 + B64Index(t[4])>>
                       \o FromBase64(SubSeq(t, 5, Len(t)))

\* UTF-8 bytes to UTF-16 code units
RECURSIVE Utf8Decode(_)
Utf8Decode(b) ==
    IF Len(b) = 0 THEN <<>>
    ELSE IF b[1] < 128 THEN <<b[1]>> \o Utf8Decode(Tail(b))
    ELSE IF b[1] < 224
         THEN <<(b[1] - 192) * 64 + (b[2] - 128)>>
              \o Utf8Decode(SubSeq(b, 3, Len(b)))
    ELSE IF b[1] < 240
         THEN <<(b[1] - 224) * 4096 + (b[2] - 128) * 64 + (b[3] - 128)>>
              \o Utf8Decode(SubSeq(b, 4, Len(b)))
    ELSE LET cp == (b[1] - 240) * 262144 + (b[2] - 128) * 4096
                   + (b[3] - 128) * 64 + (b[4] - 128) - 65536
         IN  <<55296 + (cp \div 1024), 56320 + (cp % 1024)>>
             \o Utf8Decode(SubSeq(b, 5, Len(b)))

\* strip the "Basic " prefix of an Authorization header
HeaderToken(h) == SubSeq(h, 7, Len(h))

\* all strings of at most n code units
RECURSIVE StringsUpTo(_)
StringsUpTo(n) ==
    IF n = 0 THEN {<<>>}
    ELSE LET S == StringsUpTo(n - 1)
         IN  S \cup {Append(s, c) : s \in S, c \in CodeUnits}

-----------------------------------------------------------------------------
(* Settings and their persistence (main.ts:20-30, 78-84) *)

Keys == <<"url", "apiKey", "apiSecret">>
KeySet == {Keys[k] : k \in 1..Len(Keys)}

EmptyObject == [k \in {} |-> <<>>]

DEFAULT_SETTINGS == [url |-> <<>>, apiKey |-> <<>>, apiSecret |-> <<>>]

\* mutant: the source's properties are not copied
ObjectAssignKeepsTarget(target, source) == target

\* Object.assign(target, source): every own property of source overwrites
\* target's; a null or undefined source is skipped
ObjectAssign(target, source) ==
    IF source.tag = "none"
    THEN target
    ELSE [k \in (DOMAIN target) \cup (DOMAIN source.value) |->
             IF k \in DOMAIN source.value THEN source.value[k] ELSE target[k]]

\* JSON.stringify of a flat object, as written by saveData: the
\* <<key, value>> pairs of the object's own properties, in key order
RECURSIVE StringifyFrom(_, _)
StringifyFrom(obj, n) ==
    IF n > Len(Keys) THEN <<>>
    ELSE (IF Keys[n] \in DOMAIN obj THEN << <<Keys[n], obj[Keys[n]]>> >> ELSE <<>>)
         \o StringifyFrom(obj, n + 1)

\* mutant: the first key is not written
JsonStringifySkipsFirst(obj) == StringifyFrom(obj, 2)

JsonStringify(obj) == StringifyFrom(obj, 1)

\* JSON.parse of such a text, as read by loadData
JsonParse(text) ==
    [k \in {text[n][1] : n \in 1..Len(text)} |->
        (CHOOSE pair \in {text[n] : n \in 1..Len(text)} : pair[1] = k)[2]]

\* the data file: absent, or the JSON text of an object
NoFile == [exists |-> FALSE, text |-> <<>>]
FileWith(text) == [exists |-> TRUE, text |-> text]

\* Plugin.loadData(): null when there is no data file
LoadData(d) == IF d.exists THEN Some(JsonParse(d.text)) ELSE None

\* loadSettings (main.ts:78-80)
LoadedSettings(d) ==
    ObjectAssign(ObjectAssign(EmptyObject, Some(DEFAULT_SETTINGS)), LoadData(d))

\* values a settings text field can be edited to
UrlA == <<117>>
UrlB == <<118>>
FieldValues(key) ==
    IF key = "url" THEN {<<>>, UrlA, UrlB} ELSE {<<>>, <<107>>, <<115>>}

\* every state of the data file: absent, or any subset of the three fields
PersistedObjects ==
    UNION {[S -> {<<>>, <<107>>, <<115>>}] : S \in SUBSET KeySet}
PersistedStates ==
    {NoFile} \cup {FileWith(JsonStringify(o)) : o \in PersistedObjects}

-----------------------------------------------------------------------------
(* The vault *)

NOTES == <<"n", "o", "t", "e", "s">>
DRAFT == <<"d", ".", "m", "d">>
SECOND == <<"e", ".", "m", "d">>

\* the file paths of the scenarios
PathRoot == DRAFT                                             \* d.md
PathNotes == NOTES \o <<"/">> \o DRAFT                        \* notes/d.md
PathSecond == NOTES \o <<"/">> \o SECOND                        \* notes/e.md
PathDeep == <<"a", "/", "b", "/">> \o PathNotes               \* a/b/notes/d.md
PathSubBase == NOTES \o <<"/", "u", "n">> \o PUBLISHED_DIR
               \o <<".", "m", "d">>                   \* notes/unpublished.md
PathSubDir == PUBLISHED_DIR \o <<"-", "o", "l", "d", "/">> \o DRAFT
                                                      \* published-old/d.md
PathPub == PUBLISHED_DIR \o <<"/">> \o DRAFT                  \* published/d.md
PathNotesPub == NOTES \o <<"/">> \o PathPub           \* notes/published/d.md

\* the vaults a behaviour may start from: the files' paths
Vaults ==
    { <<PathNotes, PathSecond>>,
      <<PathRoot, PathDeep>>,
      <<PathSubBase, PathSubDir>>,
      <<PathPub, PathNotesPub>>,
      <<PathNotes, PathNotesPub>> }

\* every proper directory prefix of a path
DirsOf(p) ==
    LET parts == Split(p, "/")
    IN  {Join(SubSeq(parts, 1, n), "/") : n \in 1..(Len(parts) - 1)}

Files == DOMAIN filePath

-----------------------------------------------------------------------------
(* One publish invocation: the file-menu handler and its onClick pipeline  *)
(* (main.ts:43-70), publishFile (89-105), moveFile (114-142), notify       *)

MSG_OK == "File has been published"
MSG_FAIL == "File failed to publish"

IdleRun ==
    [pc |-> "idle", file |-> 0, url |-> <<>>, token |-> <<>>,
     base |-> <<>>, path |-> <<>>, trace |-> <<>>,
     atClick |-> EmptyObject,   \* history: this.settings when clicked
     racing |-> {}]             \* history: the invocations whose createFolder
                                \* of the same folder was in flight when this
                                \* one called createFolder

Ev(op, arg) == [op |-> op, arg |-> arg]

\* mutant: both branches of TE.match report success
FinishAlwaysOk(r, ok) ==
    [r EXCEPT !.pc = "done", !.trace = Append(@, Ev("notify", MSG_OK))]

\* TE.match's two branches: notify(e, msg), the end of the invocation
Finish(r, ok) ==
    [r EXCEPT !.pc = IF ok THEN "done" ELSE "failed",
              !.trace = Append(@, Ev("notify", IF ok THEN MSG_OK ELSE MSG_FAIL))]

\* the "file-menu" handler: snapshots url and token, adds the menu item
FileMenu(i, f) ==
    /\ loaded
    /\ run[i].pc = "idle"
    /\ run' = [run EXCEPT ![i] =
                 [@ EXCEPT !.pc = "menu",
                           !.file = f,
                           !.url = settings.url,
                           !.token = DeriveToken(settings.apiKey,
                                                 settings.apiSecret)]]
    /\ UNCHANGED <<settings, data, saving, edits, loaded, filePath, folders>>

\* what the "file-menu" event may carry instead of a file
NotAFile == {"null", "folder"}

\* the "file-menu" handler on something that is not a file: evaluating
\* "extension" in file throws a TypeError on null, and on a folder the
\* handler returns; either way no menu item is added and nothing runs
FileMenuNotAFile(i, what) ==
    /\ loaded
    /\ run[i].pc = "idle"
    /\ run' = [run EXCEPT ![i] =
                 [@ EXCEPT !.pc = IF what = "null" THEN "thrown" ELSE "noitem"]]
    /\ UNCHANGED <<settings, data, saving, edits, loaded, filePath, folders>>

\* mutant: onClick saves the settings before it starts the pipeline
ClickSavesSettings(i) ==
    /\ run[i].pc = "menu"
    /\ run' = [run EXCEPT ![i] =
                 IF run[i].file \notin Files      \* TE.fromNullable
                 THEN Finish([@ EXCEPT !.atClick = settings], FALSE)
                 ELSE [@ EXCEPT !.pc = "reading",
                                !.atClick = settings,
                                !.trace = Append(@, Ev("read",
                                                       filePath[run[i].file]))]]
    /\ saving' = Append(saving, JsonStringify(settings))
    /\ UNCHANGED <<settings, data, edits, loaded, filePath, folders>>

\* onClick: the pipeline starts and publishFile calls vault.read(file)
Click(i) ==
    /\ run[i].pc = "menu"
    /\ run' = [run EXCEPT ![i] =
                 IF run[i].file \notin Files      \* TE.fromNullable
                 THEN Finish([@ EXCEPT !.atClick = settings], FALSE)
                 ELSE [@ EXCEPT !.pc = "reading",
                                !.atClick = settings,
                                !.trace = Append(@, Ev("read",
                                                       filePath[run[i].file]))]]
    /\ UNCHANGED <<settings, data, saving, edits, loaded, filePath, folders>>

\* mutant: publishFile reads this.settings when it posts
PostRequestReadsSettings(r) ==
    [url |-> settings.url,
     auth |-> AuthHeader(DeriveToken(settings.apiKey, settings.apiSecret)),
     fileName |-> BaseName(filePath[r.file])]

\* the request of publishFile: axios.post(url, data, {headers})
PostRequest(r) ==
    [url |-> r.url,
     auth |-> AuthHeader(r.token),
     fileName |-> BaseName(filePath[r.file])]

\* mutant: a failed read does not stop publishFile from posting
ReadDoneNoShortCircuit(i, ok) ==
    /\ run[i].pc = "reading"
    /\ run' = [run EXCEPT ![i] =
                 [@ EXCEPT !.pc = "posting",
                           !.trace = @ \o <<Ev("readDone", ok),
                                            Ev("post", PostRequest(run[i]))>>]]
    /\ UNCHANGED <<settings, data, saving, edits, loaded, filePath, folders>>

\* vault.read settles: on success axios.post is called
ReadDone(i, ok) ==
    /\ run[i].pc = "reading"
    /\ run' = [run EXCEPT ![i] =
                 IF ok
                 THEN [@ EXCEPT !.pc = "posting",
                                !.trace = @ \o <<Ev("readDone", TRUE),
                                                 Ev("post", PostRequest(run[i]))>>]
                 ELSE Finish([@ EXCEPT !.trace = Append(@, Ev("readDone", FALSE))],
                             FALSE)]
    /\ UNCHANGED <<settings, data, saving, edits, loaded, filePath, folders>>

\* mutant: moveFile calls createFolder and rename without awaiting the first
MoveFileRenamesAtOnce(r) ==
    LET p == filePath[r.file]
        target == TargetParts(p)
    IN  IF AlreadyPublished(p)
        THEN Finish(r, TRUE)
        ELSE IF target.tag = "none"
        THEN Finish(r, FALSE)
        ELSE [r EXCEPT !.pc = "mkdir",
                       !.base = TargetBase(target.value),
                       !.racing = {j \in Invs :
                                     /\ run[j].pc = "mkdir"
                                     /\ run[j].base = TargetBase(target.value)},
                       !.path = TargetPath(target.value),
                       !.trace = @ \o
                          <<Ev("createFolder", TargetBase(target.value)),
                            Ev("rename", [from |-> p,
                                          to |-> TargetPath(target.value)])>>]

\* moveFile(vault)(file), up to its first host call
MoveFile(r) ==
    LET p == filePath[r.file]
        target == TargetParts(p)
    IN  IF AlreadyPublished(p)
        THEN Finish(r, TRUE)
        ELSE IF target.tag = "none"
        THEN Finish(r, FALSE)
        ELSE [r EXCEPT !.pc = "mkdir",
                       !.base = TargetBase(target.value),
                       !.racing = {j \in Invs :
                                     /\ run[j].pc = "mkdir"
                                     /\ run[j].base = TargetBase(target.value)},
                       !.path = TargetPath(target.value),
                       !.trace = Append(@, Ev("createFolder",
                                              TargetBase(target.value)))]

Responses == {"2xx", "non2xx", "neterr"}

\* mutant: the pipeline goes on to moveFile whatever the response
PostDoneNoShortCircuit(i, resp) ==
    /\ run[i].pc = "posting"
    /\ run' = [run EXCEPT ![i] =
                 MoveFile([@ EXCEPT !.trace = Append(@, Ev("postDone", resp))])]
    /\ UNCHANGED <<settings, data, saving, edits, loaded, filePath, folders>>

\* axios.post settles: a 2xx response resolves, anything else rejects
PostDone(i, resp) ==
    /\ run[i].pc = "posting"
    /\ LET r == [run[i] EXCEPT !.trace = Append(@, Ev("postDone", resp))]
       IN  run' = [run EXCEPT ![i] =
                     IF resp = "2xx" THEN MoveFile(r) ELSE Finish(r, FALSE)]
    /\ UNCHANGED <<settings, data, saving, edits, loaded, filePath, folders>>

MkdirOutcomes == {"created", "exists", "denied"}

\* mutant: a createFolder error ends the invocation in failure
MkdirDoneErrorIsFatal(i, outcome) ==
    /\ run[i].pc = "mkdir"
    /\ outcome = "exists" <=> run[i].base \in folders
    /\ folders' = IF outcome = "created"
                  THEN folders \cup {run[i].base}
                  ELSE folders
    /\ run' = [run EXCEPT ![i] =
                 IF outcome = "created"
                 THEN [@ EXCEPT !.pc = "renaming",
                                !.trace = @ \o
                                   <<Ev("createFolderDone", outcome),
                                     Ev("rename", [from |-> filePath[run[i].file],
                                                   to |-> run[i].path])>>]
                 ELSE Finish([@ EXCEPT !.trace =
                                 Append(@, Ev("createFolderDone", outcome))],
                             FALSE)]
    /\ UNCHANGED <<settings, data, saving, edits, loaded, filePath>>

\* vault.createFolder settles; its error is swallowed (TE.match to base)
\* and vault.rename(file, path) is called
MkdirDone(i, outcome) ==
    /\ run[i].pc = "mkdir"
    /\ outcome = "exists" <=> run[i].base \in folders
    /\ folders' = IF outcome = "created"
                  THEN folders \cup {run[i].base}
                  ELSE folders
    /\ run' = [run EXCEPT ![i] =
                 [@ EXCEPT !.pc = "renaming",
                           !.trace = @ \o
                              <<Ev("createFolderDone", outcome),
                                Ev("rename", [from |-> filePath[run[i].file],
                                              to |-> run[i].path])>>]]
    /\ UNCHANGED <<settings, data, saving, edits, loaded, filePath>>

\* can the host carry out rename(file, path)?  The target folder must
\* exist and no other file may be at the target; whether a rename of a
\* file to the path it already has succeeds is left to the host
RenamePossible(r) ==
    /\ r.base \in folders
    /\ \A g \in Files \ {r.file} : filePath[g] # r.path

\* mutant: a failed rename is swallowed like a failed createFolder
RenameDoneSwallowsError(i, ok) ==
    /\ run[i].pc = "renaming"
    /\ ok => RenamePossible(run[i])
    /\ filePath' = IF ok
                   THEN [filePath EXCEPT ![run[i].file] = run[i].path]
                   ELSE filePath
    /\ run' = [run EXCEPT ![i] =
                 Finish([@ EXCEPT !.trace = Append(@, Ev("renameDone", ok))], TRUE)]
    /\ UNCHANGED <<settings, data, saving, edits, loaded, folders>>

\* mutant: the file is at the target even when rename reports failure
RenameDoneMovesAnyway(i, ok) ==
    /\ run[i].pc = "renaming"
    /\ ok => RenamePossible(run[i])
    /\ filePath' = [filePath EXCEPT ![run[i].file] = run[i].path]
    /\ run' = [run EXCEPT ![i] =
                 Finish([@ EXCEPT !.trace = Append(@, Ev("renameDone", ok))], ok)]
    /\ UNCHANGED <<settings, data, saving, edits, loaded, folders>>

\* vault.rename settles
RenameDone(i, ok) ==
    /\ run[i].pc = "renaming"
    /\ ok => RenamePossible(run[i])
    /\ filePath' = IF ok
                   THEN [filePath EXCEPT ![run[i].file] = run[i].path]
                   ELSE filePath
    /\ run' = [run EXCEPT ![i] =
                 Finish([@ EXCEPT !.trace = Append(@, Ev("renameDone", ok))], ok)]
    /\ UNCHANGED <<settings, data, saving, edits, loaded, folders>>

Publish(i) ==
    \/ \E f \in Files : FileMenu(i, f)
    \/ \E what \in NotAFile : FileMenuNotAFile(i, what)
    \/ Click(i)
    \/ \E ok \in BOOLEAN : ReadDone(i, ok)
    \/ \E resp \in Responses : PostDone(i, resp)
    \/ \E outcome \in MkdirOutcomes : MkdirDone(i, outcome)
    \/ \E ok \in BOOLEAN : RenameDone(i, ok)

-----------------------------------------------------------------------------------------------------------------------------------------------------
(* The settings tab and the plugin's load (main.ts:37-38, 78-84, 174-212) *)

\* onload's "await this.loadSettings()"
LoadSettings ==
    /\ ~loaded
    /\ settings' = LoadedSettings(data)
    /\ loaded' = TRUE
    /\ UNCHANGED <<data, saving, edits, filePath, folders, run>>

\* an onChange handler of the settings tab: sets one field, then
\* saveSettings() hands the whole settings object to saveData
OnChange(key, value) ==
    /\ loaded
    /\ edits < MaxEdits
    /\ Len(saving) < MaxSaving
    /\ settings' = [settings EXCEPT ![key] = value]
    /\ saving' = Append(saving, JsonStringify(settings'))
    /\ edits' = edits + 1
    /\ UNCHANGED <<data, loaded, filePath, folders, run>>

\* a saveData call in flight writes the data file.  The host does not
\* await the onChange handlers and saveSettings does not wait for an
\* earlier save, so saves in flight together settle in either order
SaveDone ==
    /\ \E n \in DOMAIN saving :
          /\ data' = FileWith(saving[n])
          /\ saving' = SubSeq(saving, 1, n - 1)
                           \o SubSeq(saving, n + 1, Len(saving))
    /\ UNCHANGED <<settings, edits, loaded, filePath, folders, run>>

Edit == \E key \in KeySet : \E value \in FieldValues(key) : OnChange(key, value)

-----------------------------------------------------------------------------
(* Specifications *)

\* the settings of the end-to-end scenario: key "k", secret "s"
ScenarioSettings == [url |-> UrlA, apiKey |-> <<107>>, apiSecret |-> <<115>>]

\* the folders of a vault with these files; with pre, the "published"
\* folders next to the files not yet published exist already
VaultFolders(paths, pre) ==
    UNION {DirsOf(paths[f]) : f \in DOMAIN paths}
    \cup (IF pre
          THEN {Join(Append(ParentParts(paths[f]), PUBLISHED_DIR), "/") :
                   f \in {g \in DOMAIN paths : ~HasPublishedSegment(paths[g])}}
          ELSE {})

(* Spec: the plugin after onload, with a vault of files; NInv publish      *)
(* invocations run concurrently, the settings are not edited               *)
Init ==
    /\ data = FileWith(JsonStringify(ScenarioSettings))
    /\ settings = LoadedSettings(data)
    /\ saving = <<>>
    /\ edits = 0
    /\ loaded = TRUE
    /\ filePath \in Vaults
    /\ \E pre \in BOOLEAN : folders = VaultFolders(filePath, pre)
    /\ run = [i \in Invs |-> IdleRun]

Next == \E i \in Invs : Publish(i)

Spec == Init /\ [][Next]_vars

(* LiveSpec: Spec with the fairness the host gives: the vault's own I/O    *)
(* (read, createFolder, rename) always settles.  Nothing makes the user    *)
(* open a menu or click, and nothing in the code makes a POST settle:      *)
(* axios.post is called without a timeout.                                 *)
LocalIO(i) ==
    \/ \E ok \in BOOLEAN : ReadDone(i, ok)
    \/ \E outcome \in MkdirOutcomes : MkdirDone(i, outcome)
    \/ \E ok \in BOOLEAN : RenameDone(i, ok)

LiveSpec == Spec /\ \A i \in Invs : WF_vars(LocalIO(i))

(* EditSpec: one publish invocation while the settings tab edits settings *)
EditInit ==
    /\ data = FileWith(JsonStringify(ScenarioSettings))
    /\ settings = LoadedSettings(data)
    /\ saving = <<>>
    /\ edits = 0
    /\ loaded = TRUE
    /\ filePath = <<PathNotes, PathSecond>>
    /\ folders = VaultFolders(filePath, FALSE)
    /\ run = [i \in Invs |-> IdleRun]

EditNext == Edit \/ SaveDone \/ Publish(1)

EditSpec == EditInit /\ [][EditNext]_vars

(* LoadSpec: the plugin's load against every state of the data file,       *)
(* then edits and saves                                                   *)
LoadInit ==
    /\ data \in PersistedStates
    /\ settings = EmptyObject
    /\ saving = <<>>
    /\ edits = 0
    /\ loaded = FALSE
    /\ filePath = <<PathNotes, PathSecond>>
    /\ folders = VaultFolders(filePath, FALSE)
    /\ run = [i \in Invs |-> IdleRun]

\* here an edit is made once the save of the edit before it is written
LoadNext == LoadSettings \/ (saving = <<>> /\ Edit) \/ SaveDone

LoadSpec == LoadInit /\ [][LoadNext]_vars

(* TokenSpec: one invocation, up to its POST, for every apiKey and         *)
(* apiSecret of at most MaxLen code units                                  *)
TokenInit ==
    /\ \E u \in {UrlA, UrlB}, k \in StringsUpTo(MaxLen), s \in StringsUpTo(MaxLen) :
          settings = [url |-> u, apiKey |-> k, apiSecret |-> s]
    /\ data = FileWith(JsonStringify(settings))
    /\ saving = <<>>
    /\ edits = 0
    /\ loaded = TRUE
    /\ filePath = <<PathNotes>>
    /\ folders = VaultFolders(filePath, FALSE)
    /\ run = [i \in Invs |-> IdleRun]

TokenNext ==
    \/ \E f \in Files : FileMenu(1, f)
    \/ Click(1)
    \/ \E ok \in BOOLEAN : ReadDone(1, ok)

TokenSpec == TokenInit /\ [][TokenNext]_vars

-----------------------------------------------------------------------------
(* What an invocation has done, read off its trace *)

Trace(i) == run[i].trace

Did(i, op) == \E k \in DOMAIN Trace(i) : Trace(i)[k].op = op

Happened(i, op, arg) == \E k \in DOMAIN Trace(i) : Trace(i)[k] = Ev(op, arg)

Count(i, op) == Cardinality({k \in DOMAIN Trace(i) : Trace(i)[k].op = op})

Terminal(i) == run[i].pc \in {"done", "failed"}

PostOk(i) == Happened(i, "postDone", "2xx")

PostFailed(i) == Did(i, "postDone") /\ ~PostOk(i)

NoRelocation(i) == ~Did(i, "createFolder") /\ ~Did(i, "rename")

Moved(i) == Happened(i, "renameDone", TRUE)

\* the path the file had when the invocation was clicked
OriginPath(i) == Trace(i)[1].arg

\* <parent>/published/<base name>, by segments
PublishedPath(p) ==
    Join(Append(ParentParts(p), PUBLISHED_DIR) \o <<BaseName(p)>>, "/")

PublishedFolder(p) == Join(Append(ParentParts(p), PUBLISHED_DIR), "/")

\* the number of segments of p equal to "published"
PublishedSegments(p) ==
    LET parts == Split(p, "/")
    IN  Cardinality({k \in 1..Len(parts) : parts[k] = PUBLISHED_DIR})

-----------------------------------------------------------------------------
(* C1 *)

\* C1: createFolder and rename are called only after the invocation's own
\* POST has settled with 2xx; an invocation whose POST failed calls neither,
\* and if no other invocation works on its file the file is still at the
\* path it had at the click.
C1_RelocationOnlyAfterUpload ==
    \A i \in Invs :
        /\ \A k \in DOMAIN Trace(i) :
              Trace(i)[k].op \in {"createFolder", "rename"} =>
                 \E j \in 1..(k - 1) : Trace(i)[j] = Ev("postDone", "2xx")
        /\ PostFailed(i) =>
              /\ NoRelocation(i)
              /\ run[i].pc = "failed"
              /\ (\A j \in Invs \ {i} : run[j].file # run[i].file) =>
                    filePath[run[i].file] = OriginPath(i)

C1_Witness ==
    \E i, j \in Invs :
        /\ PostFailed(i) /\ run[i].pc = "failed"
        /\ filePath[run[i].file] = OriginPath(i)
        /\ Moved(j)

-----------------------------------------------------------------------------
(* C2 *)

\* the relocation step of invocation i succeeded: it renamed the file, or
\* it made no host call because the path already held "published"
RelocationOk(i) ==
    \/ Moved(i)
    \/ NoRelocation(i) /\ AlreadyPublished(filePath[run[i].file])

-----------------------------------------------------------------------------
(* C3 *)

\* invocation i's POST settles with 2xx in this step, so that its
\* relocation step starts
RelocationStarts(i) == run[i].pc = "posting" /\ PostOk(i)'

\* C3: when the relocation step starts on a file whose path has a segment
\* equal to "published", it ends at once in success, calls neither
\* createFolder nor rename, and leaves every path and folder as it was;
\* this holds for each invocation, so also for a second one on the file.
C3_PublishedIsLeftAlone ==
    [][\A i \in Invs :
          (RelocationStarts(i) /\ HasPublishedSegment(filePath[run[i].file])) =>
             /\ run'[i].pc = "done"
             /\ NoRelocation(i)'
             /\ filePath' = filePath
             /\ folders' = folders]_vars

C3_Witness ==
    \E i, j \in Invs :
        /\ i # j /\ run[i].file = run[j].file
        /\ run[i].pc = "done" /\ run[j].pc = "done"
        /\ HasPublishedSegment(OriginPath(i))
        /\ HasPublishedSegment(OriginPath(j))
        /\ NoRelocation(i) /\ NoRelocation(j)
        /\ filePath[run[i].file] = OriginPath(i)

-----------------------------------------------------------------------------
(* C4 *)

\* C4 as claimed: an invocation clicked on a path without a "published"
\* segment that ends in success has the file at
\* <parent>/published/<base name>, and has called createFolder at most
\* once, for <parent>/published.
C4_MovedToPublished ==
    \A i \in Invs :
        (Did(i, "read") /\ ~HasPublishedSegment(OriginPath(i))) =>
           /\ Count(i, "createFolder") <= 1
           /\ \A k \in DOMAIN Trace(i) :
                 Trace(i)[k].op = "createFolder" =>
                    Trace(i)[k].arg = PublishedFolder(OriginPath(i))
           /\ run[i].pc = "done" =>
                 filePath[run[i].file] = PublishedPath(OriginPath(i))

-----------------------------------------------------------------------------
(* C5 *)

\* C5 as claimed: rename is never called on a file whose path, at the call,
\* has a "published" segment; no path ever has two such segments.
C5_NeverRenameUnderPublished ==
    \A i \in Invs :
        /\ \A k \in DOMAIN Trace(i) :
              Trace(i)[k].op = "rename" =>
                 ~HasPublishedSegment(Trace(i)[k].arg.from)
        /\ \A f \in Files : PublishedSegments(filePath[f]) <= 1

\* C5 amended: an invocation calls rename only if the path it was clicked
\* on has no "published" segment, and always with the target
\* <parent>/published/<base name> of that path, so the file is only ever at
\* that path or at that target: its path changes at most once.  A rename
\* called on a file whose path already has a "published" segment (by an
\* invocation that passed moveFile's guard before a concurrent one moved the
\* file) has that very path as its target.  No path has two such segments.
C5_MovedAtMostOnce ==
    /\ \A i \in Invs :
          \A k \in DOMAIN Trace(i) :
             Trace(i)[k].op = "rename" =>
                /\ ~HasPublishedSegment(OriginPath(i))
                /\ Trace(i)[k].arg.to = PublishedPath(OriginPath(i))
                /\ PublishedSegments(Trace(i)[k].arg.to) = 1
                /\ filePath[run[i].file] \in {OriginPath(i), Trace(i)[k].arg.to}
                /\ HasPublishedSegment(Trace(i)[k].arg.from) =>
                      Trace(i)[k].arg.from = Trace(i)[k].arg.to
    /\ \A f \in Files : PublishedSegments(filePath[f]) <= 1

\* two invocations on one file: the second calls rename after the first
\* has moved the file
C5_Witness ==
    \E i, j \in Invs :
        /\ i # j /\ run[i].file = run[j].file
        /\ Moved(i)
        /\ \E k \in DOMAIN Trace(j) :
              /\ Trace(j)[k].op = "rename"
              /\ HasPublishedSegment(Trace(j)[k].arg.from)
        /\ Terminal(j)

-----------------------------------------------------------------------------
(* C6 *)

\* C6 as claimed: the url and the Authorization header of an invocation's
\* POST are those derived from the settings as they were at the click.
C6_CredentialsAsOfClick ==
    \A i \in Invs :
        \A k \in DOMAIN Trace(i) :
            Trace(i)[k].op = "post" =>
               /\ Trace(i)[k].arg.url = run[i].atClick.url
               /\ Trace(i)[k].arg.auth =
                     AuthHeader(DeriveToken(run[i].atClick.apiKey,
                                            run[i].atClick.apiSecret))

-----------------------------------------------------------------------------
(* C7 *)

\* the value the data file holds for a key, as a set: empty when the file
\* or the key is absent
Persisted(k) ==
    IF data.exists
    THEN {data.text[n][2] : n \in {m \in 1..Len(data.text) : data.text[m][1] = k}}
    ELSE {}

\* C7: after the load, and before any edit, the settings have exactly the
\* three fields, each equal to the persisted value when the data file has
\* one for it and to the empty string otherwise.
C7_LoadOverlaysDefaults ==
    (loaded /\ edits = 0) =>
        /\ DOMAIN settings = KeySet
        /\ \A k \in KeySet :
              IF Persisted(k) = {}
              THEN settings[k] = <<>>
              ELSE settings[k] \in Persisted(k)

\* a partial data file: only apiKey is persisted
C7_Witness ==
    /\ loaded /\ edits = 0
    /\ data.exists
    /\ Persisted("url") = {} /\ Persisted("apiSecret") = {}
    /\ Persisted("apiKey") = {<<107>>}
    /\ settings = [url |-> <<>>, apiKey |-> <<107>>, apiSecret |-> <<>>]

-----------------------------------------------------------------------------
(* C8 *)

\* C8: once the save of the edited settings has been written, loading the
\* data file yields the settings, field by field.
C8_SaveThenLoad ==
    (loaded /\ edits > 0 /\ saving = <<>>) =>
        /\ DOMAIN LoadedSettings(data) = DOMAIN settings
        /\ \A k \in KeySet : LoadedSettings(data)[k] = settings[k]

C8_Witness ==
    /\ loaded /\ edits > 0 /\ saving = <<>>
    /\ settings.url = UrlB /\ settings.apiKey = <<107>>
    /\ settings.apiSecret = <<115>>
    /\ data = FileWith(JsonStringify(settings))

-----------------------------------------------------------------------------
(* C9 *)

\* what the Authorization header of a POST decodes to
Decoded(req) == Utf8Decode(FromBase64(HeaderToken(req.auth)))

\* a string with every unpaired surrogate replaced by U+FFFD
RECURSIVE Scrub(_)
Scrub(u) ==
    IF Len(u) = 0 THEN <<>>
    ELSE IF IsHighSurrogate(u[1]) /\ Len(u) >= 2 /\ IsLowSurrogate(u[2])
         THEN <<u[1], u[2]>> \o Scrub(Tail(Tail(u)))
    ELSE IF IsHighSurrogate(u[1]) \/ IsLowSurrogate(u[1])
         THEN <<65533>> \o Scrub(Tail(u))
    ELSE <<u[1]>> \o Scrub(Tail(u))

IsBasic(req) ==
    Len(req.auth) >= 6 /\ SubSeq(req.auth, 1, 6) = <<"B", "a", "s", "i", "c", " ">>

\* C9 as claimed: every POST goes to the configured url with an
\* Authorization header "Basic " + token, and the token decodes back to
\* exactly apiKey ":" apiSecret.
C9_TokenDecodesToPair ==
    \A i \in Invs :
        \A k \in DOMAIN Trace(i) :
            Trace(i)[k].op = "post" =>
               /\ Trace(i)[k].arg.url = settings.url
               /\ IsBasic(Trace(i)[k].arg)
               /\ Decoded(Trace(i)[k].arg) =
                     Credentials(settings.apiKey, settings.apiSecret)

\* C9 amended: every POST goes to the configured url with an Authorization
\* header "Basic " + token; the token decodes back to exactly
\* apiKey ":" apiSecret when neither string has an unpaired surrogate, and,
\* in general, to that string with each unpaired surrogate replaced by
\* U+FFFD.
C9_TokenDecodesWellFormed ==
    \A i \in Invs :
        \A k \in DOMAIN Trace(i) :
            Trace(i)[k].op = "post" =>
               LET creds == Credentials(settings.apiKey, settings.apiSecret)
               IN  /\ Trace(i)[k].arg.url = settings.url
                   /\ IsBasic(Trace(i)[k].arg)
                   /\ Decoded(Trace(i)[k].arg) = Scrub(creds)
                   /\ WellFormed(creds) => Decoded(Trace(i)[k].arg) = creds

\* a POST whose key and secret need 2-byte and 4-byte UTF-8 sequences
C9_Witness ==
    \E i \in Invs :
        /\ Did(i, "post")
        /\ settings.apiKey = <<107, 233>>
        /\ settings.apiSecret = <<55357, 56832>>
        /\ settings.url = UrlB

-----------------------------------------------------------------------------
(* C10 *)

\* C10 as claimed: every invocation, once clicked, eventually ends
\* (Done or Failed) with its notification emitted.
C10_EventuallyTerminal ==
    \A i \in Invs :
        (Trace(i) # <<>>) ~> (Terminal(i) /\ Did(i, "notify"))

-----------------------------------------------------------------------------
(* C11 *)

\* C11 as claimed: an invocation whose createFolder failed for another
\* reason than "already exists" never calls rename and, once ended, has
\* ended in Failed with the failure notification.
C11_CreateFolderErrorIsFatal ==
    \A i \in Invs :
        Happened(i, "createFolderDone", "denied") =>
           /\ ~Did(i, "rename")
           /\ Terminal(i) =>
                 (run[i].pc = "failed" /\ Happened(i, "notify", MSG_FAIL))

-----------------------------------------------------------------------------
(* C12 *)

\* C12: when createFolder fails because the folder exists, rename is called
\* next all the same, and if that rename succeeds the invocation ends in
\* Done with the success notification as its one notification.
C12_ExistingFolderIsNotFatal ==
    \A i \in Invs :
        \A k \in DOMAIN Trace(i) :
            Trace(i)[k] = Ev("createFolderDone", "exists") =>
               /\ k < Len(Trace(i))
               /\ Trace(i)[k + 1].op = "rename"
               /\ Trace(i)[k + 1].arg.to = run[i].path
               /\ Moved(i) =>
                     /\ run[i].pc = "done"
                     /\ Happened(i, "notify", MSG_OK)
                     /\ Count(i, "notify") = 1

\* two files of one directory: one invocation created notes/published, the
\* other found it existing, and each moved its file
C12_Witness ==
    \E i, j \in Invs :
        /\ run[i].file # run[j].file
        /\ Happened(j, "createFolderDone", "created")
        /\ Happened(i, "createFolderDone", "exists")
        /\ run[i].base = run[j].base
        /\ Moved(i) /\ Moved(j)
        /\ run[i].pc = "done"
        /\ filePath[run[i].file] = PublishedPath(OriginPath(i))

-----------------------------------------------------------------------------
(* C13 *)

\* C13: when rename fails after a successful upload, the invocation ends in
\* Failed with the failure notification as its one notification; the
\* failing step leaves every file where it was and every folder in place,
\* and no second POST (or any other call) follows.
C13_RenameFailureEndsFailed ==
    /\ [](\A i \in Invs :
            Happened(i, "renameDone", FALSE) =>
               /\ PostOk(i)
               /\ run[i].pc = "failed"
               /\ Count(i, "notify") = 1
               /\ Count(i, "post") = 1
               /\ Count(i, "rename") = 1
               /\ SubSeq(Trace(i), Len(Trace(i)) - 1, Len(Trace(i)))
                     = <<Ev("renameDone", FALSE), Ev("notify", MSG_FAIL)>>)
    /\ [][\A i \in Invs :
            (run[i].pc = "renaming" /\ run'[i].pc # "renaming" /\ ~Moved(i)') =>
               /\ filePath' = filePath
               /\ folders' = folders
               /\ run'[i].pc = "failed"]_vars

\* uploaded, rename failed, and the file is still where rename was told
\* to take it from
C13_Witness ==
    \E i \in Invs :
        /\ run[i].pc = "failed"
        /\ PostOk(i)
        /\ Happened(i, "renameDone", FALSE)
        /\ \E k \in DOMAIN Trace(i) :
              /\ Trace(i)[k].op = "rename"
              /\ filePath[run[i].file] = Trace(i)[k].arg.from

-----------------------------------------------------------------------------
(* C14 *)

\* C14: when the read fails, the invocation consists of the read, its
\* failure and the failure notification: no POST, no createFolder, no
\* rename, and it has ended in Failed.
C14_ReadFailureEndsFailed ==
    \A i \in Invs :
        Happened(i, "readDone", FALSE) =>
           /\ run[i].pc = "failed"
           /\ ~Did(i, "post")
           /\ NoRelocation(i)
           /\ Count(i, "notify") = 1
           /\ Trace(i) = <<Ev("read", OriginPath(i)),
                           Ev("readDone", FALSE),
                           Ev("notify", MSG_FAIL)>>

C14_Witness ==
    \E i \in Invs :
        /\ Happened(i, "readDone", FALSE)
        /\ run[i].pc = "failed"
        /\ filePath[run[i].file] = OriginPath(i)

-----------------------------------------------------------------------------
(* C15 *)

\* the host calls of one invocation and their settlings, in pipeline order
OpOrder ==
    <<"read", "readDone", "post", "postDone", "createFolder",
      "createFolderDone", "rename", "renameDone", "notify">>

Rank(op) == CHOOSE n \in DOMAIN OpOrder : OpOrder[n] = op

\* the call whose settling must come right before this call starts
SettledBefore(op) ==
    CASE op = "post" -> {"readDone"}
      [] op = "createFolder" -> {"postDone"}
      [] op = "rename" -> {"createFolderDone"}
      [] op = "notify" -> {"readDone", "postDone", "renameDone"}
      [] OTHER -> {}

Calls == {"read", "post", "createFolder", "rename", "notify"}

\* C15: within one invocation the host calls happen in the order read,
\* POST, createFolder, rename, notify, each at most once, and each starts
\* only once the call before it has settled (no call starts while another
\* call of the invocation is in flight).
C15_CallsInOrder ==
    \A i \in Invs :
        LET t == Trace(i)
        IN  /\ \A k, l \in DOMAIN t :
                  k < l => Rank(t[k].op) < Rank(t[l].op)
            /\ \A k \in DOMAIN t :
                  /\ \E n \in DOMAIN OpOrder : OpOrder[n] = t[k].op
                  /\ (k = 1) <=> (t[k].op = "read")
                  /\ (t[k].op \in Calls /\ k > 1) =>
                        t[k - 1].op \in SettledBefore(t[k].op)
                  /\ (t[k].op \notin Calls) =>
                        (k > 1 /\ Rank(t[k - 1].op) = Rank(t[k].op) - 1)

\* an invocation that made all five calls
C15_Witness ==
    \E i \in Invs :
        /\ Len(Trace(i)) = Len(OpOrder)
        /\ \A k \in DOMAIN OpOrder : Trace(i)[k].op = OpOrder[k]
        /\ run[i].pc = "done"

-----------------------------------------------------------------------------
(* C16 *)

\* two invocations of one file whose createFolder calls overlapped
RacedInCreation(i, j) ==
    /\ i # j
    /\ run[i].file = run[j].file
    /\ (j \in run[i].racing \/ i \in run[j].racing)

\* of two invocations of one file, both got as far as moveFile's createFolder
BothRelocate(i, j) ==
    /\ i # j
    /\ run[i].file = run[j].file
    /\ Did(i, "createFolder") /\ Did(j, "createFolder")

\* C16 as claimed: of two invocations racing on one file, the one that
\* lost the directory-creation race (its createFolder found the folder the
\* other one created) ends in Failed with one failure notification, the
\* other one ends in Done, and the file is at <parent>/published/<base>
\* (looked at once both have ended and the file has been moved).
C16_RaceLoserFails ==
    \A i, j \in Invs :
        (/\ RacedInCreation(i, j)
         /\ Happened(i, "createFolderDone", "exists")
         /\ Happened(j, "createFolderDone", "created")
         /\ Terminal(i) /\ Terminal(j)
         /\ (Moved(i) \/ Moved(j))) =>
           /\ run[i].pc = "failed"
           /\ Happened(i, "notify", MSG_FAIL) /\ Count(i, "notify") = 1
           /\ run[j].pc = "done"
           /\ filePath[run[i].file] = PublishedPath(OriginPath(i))

\* C16, amended: losing the directory-creation race is no failure, rename
\* is called all the same.  Of two invocations of one file that both
\* relocate, each ends in Done exactly if its own rename succeeded and
\* otherwise in Failed with one failure notification; if either rename
\* succeeded the file is at <parent>/published/<base>, and as long as no
\* rename of the file has succeeded the file is where it was.
C16_RaceOutcomes ==
    \A i, j \in Invs :
        BothRelocate(i, j) =>
           /\ Happened(i, "createFolderDone", "exists") => Did(i, "rename")
           /\ Terminal(i) =>
                 /\ (run[i].pc = "done") <=> Moved(i)
                 /\ Count(i, "notify") = 1
                 /\ (run[i].pc = "failed") <=> Happened(i, "notify", MSG_FAIL)
           /\ OriginPath(i) = OriginPath(j)
           /\ (Moved(i) \/ Moved(j)) =>
                 filePath[run[i].file] = PublishedPath(OriginPath(i))
           /\ (\A k \in Invs : run[k].file = run[i].file => ~Moved(k)) =>
                 filePath[run[i].file] = OriginPath(i)

\* the loser of the creation race moved the file and ended in Done; the
\* invocation that created the folder lost the rename and ended in Failed
C16_Witness ==
    \E i, j \in Invs :
        /\ RacedInCreation(i, j)
        /\ Happened(i, "createFolderDone", "exists")
        /\ Happened(j, "createFolderDone", "created")
        /\ run[i].pc = "done" /\ Moved(i)
        /\ run[j].pc = "failed" /\ Happened(j, "renameDone", FALSE)
        /\ filePath[run[i].file] = PublishedPath(OriginPath(i))

-----------------------------------------------------------------------------
(* C17 *)

\* C17 as claimed: once every save triggered by the edits has been
\* written, the data file holds the in-memory settings.
C17_SavedEqualsSettings ==
    (loaded /\ edits > 0 /\ saving = <<>>) =>
        data = FileWith(JsonStringify(settings))

-----------------------------------------------------------------------------
(* C18 *)

\* C18: the url and the token of an invocation are fixed once its menu
\* item exists, before its read: no later step, a settings edit included,
\* changes them, and the POST is made with exactly these.
C18_SnapshotIsFixed ==
    [][\A i \in Invs :
          /\ run[i].pc # "idle" =>
                /\ run'[i].url = run[i].url
                /\ run'[i].token = run[i].token
          /\ \A k \in DOMAIN run'[i].trace :
                (k > Len(run[i].trace) /\ run'[i].trace[k].op = "post") =>
                   /\ run[i].trace # <<>>
                   /\ run'[i].trace[k].arg.url = run[i].url
                   /\ run'[i].trace[k].arg.auth = AuthHeader(run[i].token)]_vars

\* the settings were edited while the file was being read, and the POST
\* went out with the url and the credentials from before the edit
C18_Witness ==
    \E i \in Invs : \E k \in DOMAIN Trace(i) :
        /\ Trace(i)[k].op = "post"
        /\ run[i].pc = "posting"
        /\ settings.url # run[i].atClick.url
        /\ settings.apiKey # run[i].atClick.apiKey
        /\ Trace(i)[k].arg.url = run[i].atClick.url
        /\ Trace(i)[k].arg.auth =
              AuthHeader(DeriveToken(run[i].atClick.apiKey,
                                     run[i].atClick.apiSecret))

-----------------------------------------------------------------------------
(* C19 *)

\* C19: a step of a publish invocation changes neither the settings nor
\* the data file nor the saves in flight; the settings change and a save
\* starts only in a step that is an edit, and the data file changes only
\* when a save started by an edit is written.
C19_PublishLeavesSettings ==
    [][/\ run' # run =>
             (settings' = settings /\ data' = data /\ saving' = saving)
       /\ (settings' # settings \/ Len(saving') > Len(saving)) =>
             (edits' = edits + 1 /\ run' = run)
       /\ data' # data =>
             (\E n \in DOMAIN saving : data' = FileWith(saving[n]))]_vars

\* a publish that ran to Done with the settings and the data file as
\* they were at the start
C19_Witness ==
    /\ run[1].pc = "done" /\ Moved(1)
    /\ edits = 0 /\ saving = <<>>
    /\ settings = ScenarioSettings
    /\ data = FileWith(JsonStringify(ScenarioSettings))

-----------------------------------------------------------------------------
(* C20 *)

\* C20 as claimed: when the publish action is triggered with no file, the
\* invocation has ended in Failed with one failure notification and
\* without a read, a POST, a createFolder or a rename.
C20_NoFileFails ==
    \A i \in Invs :
        run[i].pc = "thrown" =>
           /\ Happened(i, "notify", MSG_FAIL)
           /\ Count(i, "notify") = 1
           /\ ~Did(i, "read") /\ ~Did(i, "post") /\ NoRelocation(i)

====
